---- MODULE Spec2Model ----
(***************************************************************************)
(* static-site-index-gen: run() -> walkAndGenerate() -> generateHtml().    *)
(*                                                                         *)
(* Strings are sequences of tokens: a token is a file name, the separator  *)
(* "/", a blank " ", the comment mark "#", or a glob token ("*", "**").    *)
(* Directories are named by the sequence of names leading to them from the *)
(* scan root (the absolute prefix of absoluteRoot is common to every path  *)
(* the walk touches, and path.relative removes it).                        *)
(***************************************************************************)
EXTENDS Integers, Sequences, FiniteSets, TLC

VARIABLES
    fs,        \* the filesystem below absoluteRoot: path -> node
    inputs,    \* what core.getInput returns: ignore, outputFormat, includeMetadata
    pc,        \* "setup" | "walking" | "done"
    stack,     \* the active walkAndGenerate calls, innermost last
    stats,     \* [generatedCount, directoriesScanned]
    outputs,   \* core.setOutput calls of the current run, name -> value
    failed,    \* core.setFailed messages of the current run
    indices,   \* DirectoryIndex objects assembled by the current run, dir -> index
    writeLog,  \* fs.writeFileSync calls of the current run, in order
    runs,      \* number of runs started, also the clock of new Date()
    prev       \* what the previous run left: its indices, outputs, failed, writeLog

vars == <<fs, inputs, pc, stack, stats, outputs, failed, indices, writeLog, runs, prev>>

\* ------------------------------------------------------------------ bounds
MaxNodes == 2
MaxRuns == 2

\* ------------------------------------------------------------------ names
ReservedNames == {"index.html", "index.json"}
PlainNames == {"a", "B"}
Names == PlainNames \cup ReservedNames
FileSizes == {0, 11}
Root == <<>>

\* The characters of a name.
Chars(name) ==
    CASE name = "a" -> <<"a">>
      [] name = "B" -> <<"B">>
      [] name = "index.html" -> <<"i", "n", "d", "e", "x", ".", "h", "t", "m", "l">>
      [] name = "index.json" -> <<"i", "n", "d", "e", "x", ".", "j", "s", "o", "n">>

\* UTF-16 code unit of a character.
CodeUnit(ch) ==
    CASE ch = "." -> 46 [] ch = "B" -> 66 [] ch = "a" -> 97 [] ch = "d" -> 100
      [] ch = "e" -> 101 [] ch = "h" -> 104 [] ch = "i" -> 105 [] ch = "j" -> 106
      [] ch = "l" -> 108 [] ch = "m" -> 109 [] ch = "n" -> 110 [] ch = "o" -> 111
      [] ch = "s" -> 115 [] ch = "t" -> 116 [] ch = "x" -> 120

\* Primary collation weight: punctuation before letters, letters by alphabet
\* position whatever their case.
PrimaryWeight(ch) ==
    CASE ch = "." -> 0 [] ch = "a" -> 1 [] ch = "B" -> 2 [] ch = "d" -> 4
      [] ch = "e" -> 5 [] ch = "h" -> 8 [] ch = "i" -> 9 [] ch = "j" -> 10
      [] ch = "l" -> 12 [] ch = "m" -> 13 [] ch = "n" -> 14 [] ch = "o" -> 15
      [] ch = "s" -> 19 [] ch = "t" -> 20 [] ch = "x" -> 24

\* Tertiary collation weight: lower case before upper case.
TertiaryWeight(ch) == IF ch = "B" THEN 1 ELSE 0

RECURSIVE CompareSeq(_, _)
\* Lexicographic comparison of two sequences of numbers: -1, 0 or 1.
CompareSeq(s, t) ==
    IF s = <<>> /\ t = <<>> THEN 0
    ELSE IF s = <<>> THEN -1
    ELSE IF t = <<>> THEN 1
    ELSE IF Head(s) < Head(t) THEN -1
    ELSE IF Head(s) > Head(t) THEN 1
    ELSE CompareSeq(Tail(s), Tail(t))

PrimaryKey(name) == [i \in 1..Len(Chars(name)) |-> PrimaryWeight(Chars(name)[i])]
TertiaryKey(name) == [i \in 1..Len(Chars(name)) |-> TertiaryWeight(Chars(name)[i])]

\* String.prototype.localeCompare: primary weights decide, case breaks ties.
localeCompare(x, y) ==
    LET p == CompareSeq(PrimaryKey(x), PrimaryKey(y))
    IN  IF p # 0 THEN p ELSE CompareSeq(TertiaryKey(x), TertiaryKey(y))

\* ------------------------------------------------------------------ paths
RECURSIVE Join(_)
\* The string of a sequence of names, joined by "/".
Join(segs) ==
    IF segs = <<>> THEN <<>>
    ELSE IF Len(segs) = 1 THEN <<segs[1]>>
    ELSE <<segs[1], "/">> \o Join(Tail(segs))

\* path.relative(rootDir, p) for p at or below rootDir.
relative(segs) == Join(segs)

\* path.join(dir, name)
join(dir, name) == Append(dir, name)

\* path.basename(str): the last name of the string, "" when there is none.
basename(str) ==
    LET names == SelectSeq(str, LAMBDA t : t # "/")
    IN  IF names = <<>> THEN <<>> ELSE <<names[Len(names)]>>

IsPrefix(s, t) == Len(s) <= Len(t) /\ SubSeq(t, 1, Len(s)) = s
IsProperPrefix(s, t) == Len(s) < Len(t) /\ IsPrefix(s, t)

\* ------------------------------------------------------------------ minimatch
RECURSIVE SplitFrom(_, _)
SplitFrom(str, cur) ==
    IF str = <<>> THEN <<cur>>
    ELSE IF Head(str) = "/" THEN <<cur>> \o SplitFrom(Tail(str), "")
    ELSE SplitFrom(Tail(str), Head(str))

\* Split a string on "/": "" -> [""], "/" -> ["", ""], "a/B" -> ["a", "B"].
slashSplit(str) == SplitFrom(str, "")

RECURSIVE matchOne(_, _)
\* Match the parts of a path against the parts of a pattern (partial = false,
\* dot = true): a literal part matches itself, "*" any non-empty part, "**" any
\* run of parts; a pattern that ends early matches only a trailing empty part.
matchOne(file, pattern) ==
    IF file = <<>> /\ pattern = <<>> THEN TRUE
    ELSE IF file = <<>> THEN FALSE
    ELSE IF pattern = <<>> THEN Len(file) = 1 /\ file[1] = ""
    ELSE IF Head(pattern) = "**" THEN
        IF Len(pattern) = 1 THEN TRUE
        ELSE \E fr \in 1..Len(file) :
                matchOne(SubSeq(file, fr, Len(file)), Tail(pattern))
    ELSE IF Head(pattern) = "*" THEN
        Head(file) # "" /\ matchOne(Tail(file), Tail(pattern))
    ELSE Head(file) = Head(pattern) /\ matchOne(Tail(file), Tail(pattern))

minimatch(str, pattern) == matchOne(slashSplit(str), slashSplit(pattern))

\* ------------------------------------------------------------------ filter
RECURSIVE trimStart(_)
trimStart(s) == IF s # <<>> /\ Head(s) = " " THEN trimStart(Tail(s)) ELSE s

RECURSIVE trimEnd(_)
trimEnd(s) ==
    IF s # <<>> /\ s[Len(s)] = " " THEN trimEnd(SubSeq(s, 1, Len(s) - 1)) ELSE s

trim(s) == trimEnd(trimStart(s))

\* input is the raw ignore list already cut at newlines and commas.
parseIgnorePatterns(input) ==
    IF input = <<>> THEN <<>>
    ELSE SelectSeq([i \in 1..Len(input) |-> trim(input[i])],
                   LAMBDA p : p # <<>> /\ Head(p) # "#")

\* relativePath.replace(/\\/g, '/')
normalize(str) == [i \in 1..Len(str) |-> IF str[i] = "\\" THEN "/" ELSE str[i]]

shouldIgnore(relativePath, patterns) ==
    LET normalizedPath == normalize(relativePath)
    IN  \E i \in 1..Len(patterns) :
            \/ minimatch(normalizedPath, patterns[i])
            \/ minimatch(basename(normalizedPath), patterns[i])

\* ------------------------------------------------------------------ filesystem
Put(f, k, v) == [x \in DOMAIN f \cup {k} |-> IF x = k THEN v ELSE f[x]]

\* Variant: the existence check always passes.
existsSync_Always(fsx, p) == TRUE

existsSync(fsx, p) == p \in DOMAIN fsx

IsDirectoryAt(fsx, p) == p \in DOMAIN fsx /\ fsx[p].kind = "directory"

\* fs.readdirSync(dir, { withFileTypes: true }): the Dirents of dir, as a set;
\* the order of the array is whatever the directory happens to hold.
readdirSync(fsx, dir) ==
    {[name |-> n, kind |-> fsx[join(dir, n)].kind] :
        n \in {m \in Names : join(dir, m) \in DOMAIN fsx}}

isDirectory(item) == item.kind = "directory"
isFile(item) == item.kind = "file"

\* Bytes of a rendered document: grows with the number of rows it lists.
byteLength(content) ==
    IF content.format = "html" THEN 1 + Len(content.rows)
    ELSE 1 + Len(content.index.entries)

\* fs.writeFileSync(p, content) on a path that is no directory.
writeFileSync(fsx, p, content, now) ==
    Put(fsx, p, [kind |-> "file", size |-> byteLength(content), mtime |-> now,
                 content |-> content])

NodeCount == Cardinality(DOMAIN fs \ {Root})

\* ------------------------------------------------------------------ inputs
IgnoreInputs ==
    { <<>>,
      << <<"B">> >>,
      << <<"a", "/", "B">> >>,
      << <<"*">> >>,
      << <<"/">> >>,
      << <<"#", "B">>, <<>>, <<" ", "a", " ">> >> }

OutputFormats == {"html", "json", "both"}

\* const ignorePatterns = parseIgnorePatterns(core.getInput('ignore'))
ignorePatterns == parseIgnorePatterns(inputs.ignore)
\* const outputFormat = core.getInput('output-format') || 'both'
outputFormat == IF inputs.outputFormat = "" THEN "both" ELSE inputs.outputFormat
\* const includeMetadata = core.getInput('include-metadata') === 'true'
includeMetadata == inputs.includeMetadata = "true"

\* ------------------------------------------------------------------ walker
\* Variant: only index.html is treated as a generated file.
IsReservedName_HtmlOnly(name) == name = "index.html"

IsReservedName(name) == name = "index.html" \/ name = "index.json"

\* Variant: generated index files are not skipped.
SkipItem_NoReserved(name, itemRelativePath, patterns) ==
    shouldIgnore(itemRelativePath, patterns)

\* Variant: ignored items are not skipped.
SkipItem_NoIgnore(name, itemRelativePath, patterns) ==
    name = "index.html" \/ name = "index.json"

\* The two `continue`s of the loop over the directory's items.
SkipItem(name, itemRelativePath, patterns) ==
    IsReservedName(name) \/ shouldIgnore(itemRelativePath, patterns)

\* Variant: everything that is not a directory is stat'ed.
WantsMetadata_NotDirectory(withMetadata, item) == withMetadata /\ ~isDirectory(item)

WantsMetadata(withMetadata, item) == withMetadata /\ isFile(item)

\* The FileEntry of an item; node is what fs.statSync(itemPath) returns.
FileEntry(item, itemRelativePath, node, withMetadata) ==
    LET entry == [name |-> item.name,
                  type |-> IF isDirectory(item) THEN "directory" ELSE "file",
                  path |-> itemRelativePath]
    IN  IF WantsMetadata(withMetadata, item)
        THEN [name |-> entry.name, type |-> entry.type, path |-> entry.path,
              size |-> node.size, modified |-> node.mtime]
        ELSE entry

\* Variant: the comparator looks at names only.
compareEntries_NamesOnly(a, b) == localeCompare(a.name, b.name)

\* The comparator handed to entries.sort.
compareEntries(a, b) ==
    IF a.type # b.type
    THEN (IF a.type = "directory" THEN -1 ELSE 1)
    ELSE localeCompare(a.name, b.name)

RECURSIVE InsertSorted(_, _)
InsertSorted(e, sorted) ==
    IF sorted = <<>> THEN <<e>>
    ELSE IF compareEntries(e, Head(sorted)) < 0 THEN <<e>> \o sorted
    ELSE <<Head(sorted)>> \o InsertSorted(e, Tail(sorted))

RECURSIVE sortEntries(_)
\* Array.prototype.sort (stable) under compareEntries.
sortEntries(entries) ==
    IF entries = <<>> THEN <<>>
    ELSE InsertSorted(entries[Len(entries)],
                      sortEntries(SubSeq(entries, 1, Len(entries) - 1)))

\* const relativePath = path.relative(rootDir, dir) || '/'
relativePathOf(dir) == IF relative(dir) = <<>> THEN <<"/">> ELSE relative(dir)

\* index.path
indexPath(relativePath) ==
    IF relativePath = <<>> THEN <<"/">> ELSE <<"/">> \o relativePath

DirectoryIndex(relativePath, entries, now) ==
    [path |-> indexPath(relativePath), entries |-> sortEntries(entries),
     generated |-> now]

GeneratesHtml(format) == format = "html" \/ format = "both"
\* Variant: 'both' does not produce JSON.
GeneratesJson_JsonOnly(format) == format = "json"

GeneratesJson(format) == format = "json" \/ format = "both"

\* ------------------------------------------------------------------ renderer
parentLink(index) ==
    IF index.path # <<"/">>
    THEN << [href |-> <<"../">>, label |-> <<"../">>] >>
    ELSE <<>>

entryRow(entry) ==
    LET slash == IF entry.type = "directory" THEN <<"/">> ELSE <<>>
    IN  [href |-> <<entry.name>> \o slash, label |-> <<entry.name>> \o slash]

\* The <tbody> of the document: ${parentLink}${rows}.
generateHtml(index) ==
    [format |-> "html",
     rows |-> parentLink(index)
              \o [i \in 1..Len(index.entries) |-> entryRow(index.entries[i])]]

\* JSON.stringify(index, null, 2)
generateJson(index) == [format |-> "json", index |-> index]

\* ------------------------------------------------------------------ state
EmptyMap == [p \in {} |-> 0]
ZeroStats == [generatedCount |-> 0, directoriesScanned |-> 0]
DirectoryNode == [kind |-> "directory", size |-> 0, mtime |-> 0,
                  content |-> [format |-> "data"]]
FileNode(size) == [kind |-> "file", size |-> size, mtime |-> 0,
                   content |-> [format |-> "data"]]
SymlinkNode == [kind |-> "symlink", size |-> 0, mtime |-> 0,
                content |-> [format |-> "data"]]

Init ==
    /\ fs \in {EmptyMap, Put(EmptyMap, Root, DirectoryNode)}
    /\ inputs \in [ignore : IgnoreInputs, outputFormat : OutputFormats,
                   includeMetadata : {"true", "false"}]
    /\ pc = "setup"
    /\ stack = <<>>
    /\ stats = ZeroStats
    /\ outputs = EmptyMap
    /\ failed = <<>>
    /\ indices = EmptyMap
    /\ writeLog = <<>>
    /\ runs = 0
    /\ prev = [ran |-> FALSE, indices |-> EmptyMap, outputs |-> EmptyMap,
               failed |-> <<>>, writeLog |-> <<>>]

\* ------------------------------------------------------------------ tree setup
CanCreate(parent, name) ==
    /\ pc = "setup"
    /\ NodeCount < MaxNodes
    /\ IsDirectoryAt(fs, parent)
    /\ join(parent, name) \notin DOMAIN fs

Unchanged_run ==
    UNCHANGED <<inputs, pc, stack, stats, outputs, failed, indices, writeLog, runs, prev>>

\* fs.mkdirSync(path.join(parent, name))
Mkdir ==
    \E parent \in DOMAIN fs, name \in Names :
        /\ CanCreate(parent, name)
        /\ fs' = Put(fs, join(parent, name), DirectoryNode)
        /\ Unchanged_run

\* fs.writeFileSync(path.join(parent, name), data) before any run
CreateFile ==
    \E parent \in DOMAIN fs, name \in Names, size \in FileSizes :
        /\ CanCreate(parent, name)
        /\ fs' = Put(fs, join(parent, name), FileNode(size))
        /\ Unchanged_run

\* A child that is neither a regular file nor a directory (a symbolic link).
CreateSymlink ==
    \E parent \in DOMAIN fs, name \in PlainNames :
        /\ CanCreate(parent, name)
        /\ fs' = Put(fs, join(parent, name), SymlinkNode)
        /\ Unchanged_run

\* ------------------------------------------------------------------ walkAndGenerate
\* Variant: the caller goes on before its callee has returned.
ActiveFrame_Outermost(stk) == 1

\* The frame the interpreter is executing: the innermost call.
ActiveFrame(stk) == Len(stk)

RemoveAt(stk, k) == SubSeq(stk, 1, k - 1) \o SubSeq(stk, k + 1, Len(stk))

\* A call walkAndGenerate(dir, ...) up to the loop over the items: it returns at
\* once on an ignored directory, throws when dir cannot be listed, and otherwise
\* counts the directory and starts a frame.
Enter(dir, st) ==
    LET relativePath == relativePathOf(dir)
        counted == [st EXCEPT !.directoriesScanned = @ + 1]
        noFrame == [dir |-> dir, relativePath |-> relativePath, items |-> {},
                    entries |-> <<>>]
    IN  IF shouldIgnore(relativePath, ignorePatterns)
        THEN [outcome |-> "return", stats |-> st, frame |-> noFrame,
              message |-> <<>>]
        ELSE IF ~IsDirectoryAt(fs, dir)
        THEN [outcome |-> "throw", stats |-> counted, frame |-> noFrame,
              message |-> (IF existsSync(fs, dir)
                           THEN <<"ENOTDIR: not a directory, scandir ">>
                           ELSE <<"ENOENT: no such file or directory, scandir ">>)
                          \o relativePath]
        ELSE [outcome |-> "frame", stats |-> counted,
              frame |-> [noFrame EXCEPT !.items = readdirSync(fs, dir)],
              message |-> <<>>]

\* What the caller's state becomes after a call made with the stack `base`.
AfterCall(r, base) ==
    /\ stats' = r.stats
    /\ IF r.outcome = "throw"
       THEN stack' = <<>> /\ failed' = <<r.message>> /\ pc' = "done"
       ELSE /\ stack' = (IF r.outcome = "frame" THEN Append(base, r.frame) ELSE base)
            /\ failed' = failed
            /\ pc' = "walking"

\* run() from its start to the first step inside the walk.
Run ==
    /\ pc \in {"setup", "done"}
    /\ runs < MaxRuns
    /\ runs' = runs + 1
    /\ prev' = [ran |-> runs > 0, indices |-> indices, outputs |-> outputs,
                failed |-> failed, writeLog |-> writeLog]
    /\ indices' = EmptyMap
    /\ writeLog' = <<>>
    /\ outputs' = EmptyMap
    /\ IF ~existsSync(fs, Root)
       THEN /\ failed' = << <<"Root directory does not exist: ", "absoluteRoot">> >>
            /\ stats' = ZeroStats
            /\ stack' = <<>>
            /\ pc' = "done"
       ELSE AfterCall(Enter(Root, ZeroStats), <<>>)
    /\ UNCHANGED <<fs, inputs>>

\* One iteration of `for (const item of items)`, the recursive call included up
\* to the callee's own loop. The items come in the order of the directory, which
\* nothing fixes: any item not yet seen may be the next one.
WalkItem ==
    /\ pc = "walking"
    /\ stack # <<>>
    /\ LET k == ActiveFrame(stack)
           frame == stack[k]
       IN  \E item \in frame.items :
             LET itemPath == join(frame.dir, item.name)
                 itemRelativePath == relative(itemPath)
                 rest == [frame EXCEPT !.items = @ \ {item}]
                 entry == FileEntry(item, itemRelativePath, fs[itemPath],
                                    includeMetadata)
                 pushed == [rest EXCEPT !.entries = Append(@, entry)]
             IN  IF SkipItem(item.name, itemRelativePath, ignorePatterns)
                 THEN /\ stack' = [stack EXCEPT ![k] = rest]
                      /\ UNCHANGED <<stats, failed, pc>>
                 ELSE IF isDirectory(item)
                 THEN AfterCall(Enter(itemPath, stats),
                                [stack EXCEPT ![k] = pushed])
                 ELSE /\ stack' = [stack EXCEPT ![k] = pushed]
                      /\ UNCHANGED <<stats, failed, pc>>
    /\ UNCHANGED <<fs, inputs, outputs, indices, writeLog, runs, prev>>

\* The end of a call: sort, assemble the index, write the requested files.
\* fs.writeFileSync throws EISDIR on a path that is a directory; the error ends
\* the run in run()'s catch.
WalkFinish ==
    /\ pc = "walking"
    /\ stack # <<>>
    /\ LET k == ActiveFrame(stack)
           frame == stack[k]
           index == DirectoryIndex(frame.relativePath, frame.entries, runs)
           htmlPath == join(frame.dir, "index.html")
           jsonPath == join(frame.dir, "index.json")
           wantHtml == GeneratesHtml(outputFormat)
           wantJson == GeneratesJson(outputFormat)
           htmlThrows == wantHtml /\ IsDirectoryAt(fs, htmlPath)
           htmlDone == wantHtml /\ ~htmlThrows
           fs1 == IF htmlDone
                  THEN writeFileSync(fs, htmlPath, generateHtml(index), runs)
                  ELSE fs
           log1 == IF htmlDone
                   THEN Append(writeLog, [dir |-> frame.dir, name |-> "index.html"])
                   ELSE writeLog
           n1 == IF htmlDone THEN stats.generatedCount + 1 ELSE stats.generatedCount
           jsonThrows == ~htmlThrows /\ wantJson /\ IsDirectoryAt(fs1, jsonPath)
           jsonDone == ~htmlThrows /\ wantJson /\ ~jsonThrows
           fs2 == IF jsonDone
                  THEN writeFileSync(fs1, jsonPath, generateJson(index), runs)
                  ELSE fs1
           log2 == IF jsonDone
                   THEN Append(log1, [dir |-> frame.dir, name |-> "index.json"])
                   ELSE log1
           n2 == IF jsonDone THEN n1 + 1 ELSE n1
       IN  /\ frame.items = {}
           /\ indices' = Put(indices, frame.dir, index)
           /\ fs' = fs2
           /\ writeLog' = log2
           /\ stats' = [stats EXCEPT !.generatedCount = n2]
           /\ IF htmlThrows \/ jsonThrows
              THEN /\ failed' = << <<"EISDIR: illegal operation on a directory, open ">>
                                   \o (IF htmlThrows THEN htmlPath ELSE jsonPath) >>
                   /\ stack' = <<>>
                   /\ pc' = "done"
              ELSE /\ stack' = RemoveAt(stack, k)
                   /\ UNCHANGED <<failed, pc>>
    /\ UNCHANGED <<inputs, outputs, runs, prev>>

\* run() after the walk has returned: the outputs.
RunReturn ==
    /\ pc = "walking"
    /\ stack = <<>>
    /\ outputs' =
         LET counts == [n \in {"generated-count", "directories-scanned"} |->
                          IF n = "generated-count" THEN <<stats.generatedCount>>
                          ELSE <<stats.directoriesScanned>>]
         IN  IF GeneratesJson(outputFormat)
             THEN Put(counts, "manifest-path", <<"rootDir", "index.json">>)
             ELSE counts
    /\ pc' = "done"
    /\ UNCHANGED <<fs, inputs, stack, stats, failed, indices, writeLog, runs, prev>>

Next ==
    \/ Mkdir
    \/ CreateFile
    \/ CreateSymlink
    \/ Run
    \/ WalkItem
    \/ WalkFinish
    \/ RunReturn

Spec == Init /\ [][Next]_vars

\* ================================================================== properties
Succeeded == pc = "done" /\ failed = <<>>
Scanned == DOMAIN indices
Received == {writeLog[i].dir : i \in DOMAIN writeLog}
EntriesOf(d) == indices[d].entries
EntryNames(d) == {EntriesOf(d)[i].name : i \in DOMAIN EntriesOf(d)}
Prefixes(d) == {SubSeq(d, 1, i) : i \in 0..Len(d)}
NotIgnored(d) == ~shouldIgnore(relativePathOf(d), ignorePatterns)
Directories == {d \in DOMAIN fs : fs[d].kind = "directory"}

\* The directories reachable from the root through directories that are not
\* ignored, the root included.
NonIgnoredDirs == {d \in Directories : \A q \in Prefixes(d) : NotIgnored(q)}

\* Those of them no part of whose path is "index.html" or "index.json".
ListedDirs ==
    {d \in NonIgnoredDirs : \A i \in DOMAIN d : d[i] \notin ReservedNames}

ReportsScanned(n) ==
    /\ stats.directoriesScanned = n
    /\ outputs["directories-scanned"] = <<n>>

\* C1 as stated: after a successful run the directories that received an index
\* file are exactly the non-ignored directories reachable from the root, and
\* directories-scanned is their number.
C1_AsStated ==
    Succeeded =>
        /\ Received = NonIgnoredDirs
        /\ ReportsScanned(Cardinality(NonIgnoredDirs))

\* C1 amended: after a successful run the directories that received an index
\* file are exactly the directories reachable from the root through children
\* that are neither ignored nor named index.html / index.json, the root
\* included unless it is ignored; directories-scanned is their number, and it
\* is 0 with nothing written when the root is ignored.
C1_ScannedDirectories ==
    Succeeded =>
        /\ Received = ListedDirs
        /\ Scanned = ListedDirs
        /\ ReportsScanned(Cardinality(ListedDirs))
        /\ ~NotIgnored(Root) => writeLog = <<>> /\ stats = ZeroStats

C1_Witness ==
    /\ Succeeded
    /\ Cardinality(Received) >= 2
    /\ Directories \ Received # {}

\* The type an entry shows for a child of the given kind.
ShownType(kind) == IF kind = "directory" THEN "directory" ELSE "file"

SurvivingChildren(d) ==
    {n \in Names :
        /\ join(d, n) \in DOMAIN fs
        /\ n \notin ReservedNames
        /\ ~shouldIgnore(Join(join(d, n)), ignorePatterns)}

\* C2: the (name, type) pairs of a directory's index are exactly its children
\* that are neither named index.html / index.json nor ignored on their
\* root-relative path, each listed once.
C2_EntriesAreSurvivingChildren ==
    \A d \in Scanned :
        /\ {<<EntriesOf(d)[i].name, EntriesOf(d)[i].type>> : i \in DOMAIN EntriesOf(d)}
             = {<<n, ShownType(fs[join(d, n)].kind)>> : n \in SurvivingChildren(d)}
        /\ Len(EntriesOf(d)) = Cardinality(SurvivingChildren(d))

C2_Witness ==
    \E d \in Scanned :
        /\ EntriesOf(d) # <<>>
        /\ \E n \in Names :
              /\ join(d, n) \in DOMAIN fs
              /\ n \notin ReservedNames
              /\ n \notin EntryNames(d)
        /\ join(d, "index.json") \in DOMAIN fs

\* C3: the root's index has path "/", every other index has path "/" followed
\* by the directory's path relative to the scan root.
C3_IndexPath ==
    \A d \in Scanned :
        indices[d].path = (IF d = Root THEN <<"/">> ELSE <<"/">> \o Join(d))

HtmlFiles ==
    {p \in DOMAIN fs : fs[p].kind = "file" /\ fs[p].content.format = "html"}
DirOf(p) == SubSeq(p, 1, Len(p) - 1)
RowsOf(p) == fs[p].content.rows
IsParentRow(row) == row.href = <<"../">>

\* C4: a generated index.html holds the parent-directory row, before every
\* entry row, exactly when its directory is not the scan root.
C4_ParentRow ==
    \A p \in HtmlFiles :
        /\ (\E i \in DOMAIN RowsOf(p) : IsParentRow(RowsOf(p)[i])) <=> DirOf(p) # Root
        /\ \A i \in DOMAIN RowsOf(p) : IsParentRow(RowsOf(p)[i]) => i = 1

CodeUnitKey(name) == [i \in 1..Len(Chars(name)) |-> CodeUnit(Chars(name)[i])]
CodeUnitCompare(x, y) == CompareSeq(CodeUnitKey(x), CodeUnitKey(y))

DirectoriesFirst(entries) ==
    \A i, j \in DOMAIN entries :
        entries[i].type = "directory" /\ entries[j].type = "file" => i < j

SameGroup(entries, i, j) == i < j /\ entries[i].type = entries[j].type

AscendingByCodeUnit(entries) ==
    \A i, j \in DOMAIN entries :
        SameGroup(entries, i, j)
            => CodeUnitCompare(entries[i].name, entries[j].name) < 0

AscendingByLocale(entries) ==
    \A i, j \in DOMAIN entries :
        SameGroup(entries, i, j)
            => localeCompare(entries[i].name, entries[j].name) < 0

MentionsDoesNotExist(message) ==
    \E i \in DOMAIN message : message[i] = "Root directory does not exist: "

\* C6: when the root does not exist, a run writes nothing, never walks, sets no
\* output and reports exactly one failure that says "does not exist".
C6_MissingRoot ==
    (runs > 0 /\ Root \notin DOMAIN fs) =>
        /\ pc = "done"
        /\ stack = <<>>
        /\ fs = EmptyMap
        /\ writeLog = <<>>
        /\ indices = EmptyMap
        /\ stats = ZeroStats
        /\ outputs = EmptyMap
        /\ Len(failed) = 1
        /\ MentionsDoesNotExist(failed[1])

C6_Witness == runs > 0 /\ Root \notin DOMAIN fs /\ pc = "done"

FormatCount ==
    CASE outputFormat = "both" -> 2
      [] outputFormat = "html" -> 1
      [] outputFormat = "json" -> 1
      [] OTHER -> 0
AsksFor(name) ==
    \/ outputFormat = "both"
    \/ outputFormat = "html" /\ name = "index.html"
    \/ outputFormat = "json" /\ name = "index.json"
Written(d, name) == \E i \in DOMAIN writeLog : writeLog[i] = [dir |-> d, name |-> name]

CountsAgree ==
    /\ outputs["generated-count"] = <<Len(writeLog)>>
    /\ stats.generatedCount = Len(writeLog)
    /\ stats.generatedCount = stats.directoriesScanned * FormatCount
    /\ stats.directoriesScanned = Cardinality(Scanned)

\* C7 as stated: generated-count is the number of files written, it equals
\* directories-scanned times the number of formats, and index.html / index.json
\* exist in a scanned directory exactly for the requested formats.
C7_AsStated ==
    Succeeded =>
        /\ CountsAgree
        /\ \A d \in Scanned, name \in ReservedNames :
              join(d, name) \in DOMAIN fs <=> AsksFor(name)

\* C7 amended: generated-count is the number of files written, it equals
\* directories-scanned times the number of formats, and the run writes
\* index.html / index.json into a scanned directory exactly for the requested
\* formats (what already lay there under the other name stays).
C7_GeneratedCount ==
    Succeeded =>
        /\ CountsAgree
        /\ \A d \in Scanned, name \in ReservedNames :
              /\ Written(d, name) <=> AsksFor(name)
              /\ AsksFor(name) =>
                    /\ join(d, name) \in DOMAIN fs
                    /\ fs[join(d, name)].kind = "file"
                    /\ fs[join(d, name)].mtime = runs
        /\ \A i, j \in DOMAIN writeLog : writeLog[i] = writeLog[j] => i = j

C7_Witness ==
    /\ Succeeded
    /\ outputFormat = "both"
    /\ Cardinality(Scanned) >= 2
    /\ stats.generatedCount = 4

\* C8: an entry carries size and modified exactly when include-metadata is true
\* and the child is a regular file; the size is the file's byte length, and a
\* directory entry carries neither.
C8_Metadata ==
    \A d \in Scanned : \A i \in DOMAIN EntriesOf(d) :
        LET e == EntriesOf(d)[i]
            child == fs[join(d, e.name)]
            regular == child.kind = "file"
        IN  /\ "size" \in DOMAIN e <=> (includeMetadata /\ regular)
            /\ "modified" \in DOMAIN e <=> (includeMetadata /\ regular)
            /\ "size" \in DOMAIN e => e.size = child.size
            /\ e.type = "directory" => DOMAIN e = {"name", "type", "path"}

C8_Witness ==
    /\ includeMetadata
    /\ \E d \in Scanned :
          /\ \E i \in DOMAIN EntriesOf(d) :
                "size" \in DOMAIN EntriesOf(d)[i] /\ EntriesOf(d)[i].size = 11
          /\ \E i \in DOMAIN EntriesOf(d) :
                /\ EntriesOf(d)[i].type = "file"
                /\ "size" \notin DOMAIN EntriesOf(d)[i]

Listing(index) ==
    [path |-> index.path,
     entries |-> [i \in DOMAIN index.entries |->
                    [name |-> index.entries[i].name,
                     type |-> index.entries[i].type,
                     path |-> index.entries[i].path]]]

\* C9: a second run with the same inputs and an otherwise untouched tree scans
\* the same directories, produces for each the same path and the same entries
\* in the same order, lists none of the files the first run wrote, and reports
\* the same counts.
C9_Idempotent ==
    (pc = "done" /\ prev.ran /\ prev.failed = <<>>) =>
        /\ failed = <<>>
        /\ DOMAIN indices = DOMAIN prev.indices
        /\ \A d \in Scanned : Listing(indices[d]) = Listing(prev.indices[d])
        /\ \A i \in DOMAIN prev.writeLog :
              prev.writeLog[i].name \notin EntryNames(prev.writeLog[i].dir)
        /\ outputs = prev.outputs
        /\ GeneratesJson(outputFormat) =>
              \A d \in Scanned :
                  fs[join(d, "index.json")].content = generateJson(indices[d])

C9_Witness ==
    /\ pc = "done"
    /\ prev.ran
    /\ prev.failed = <<>>
    /\ Len(prev.writeLog) >= 2
    /\ \E d \in Scanned : EntriesOf(d) # <<>>
    /\ indices # prev.indices

\* C10: the index files of a directory are written after those of every
\* scanned directory below it, every scanned directory is written by the end
\* of a successful run, and the root's files come last.
C10_BottomUp ==
    /\ \A i, j \in DOMAIN writeLog :
          IsProperPrefix(writeLog[j].dir, writeLog[i].dir) => i < j
    /\ \A j \in DOMAIN writeLog : \A d \in Scanned :
          IsProperPrefix(writeLog[j].dir, d) => d \in Received
    /\ Succeeded =>
          /\ Scanned \subseteq Received
          /\ writeLog # <<>> => writeLog[Len(writeLog)].dir = Root

C10_Witness ==
    /\ Succeeded
    /\ \E i \in DOMAIN writeLog : Len(writeLog[i].dir) = 2

====
